---- MODULE Spec2Model ----
(***************************************************************************)
(* Model of the Refactoring Swarm orchestration engine                     *)
(* (src/src/orchestrator.py) together with the Validator                   *)
(* (src/src/agents/judge.py) and the tool adapters it calls                *)
(* (src/src/tools/test_tools.py, analysis_tools.py, refactoring_tools.py). *)
(*                                                                         *)
(* The compiled graph of _build_workflow_graph is modelled by the program  *)
(* counter pc: one action per node, one for the conditional edge           *)
(* _should_continue_or_stop, and three for the parts of run() around the   *)
(* graph.  The graph runtime is taken to thread the one RefactoringState   *)
(* dictionary through the nodes and the conditional edge, as the code of   *)
(* the nodes assumes (orchestrator.py:193).                                *)
(*                                                                         *)
(* Text is modelled as a sequence of lines, a line as a sequence of        *)
(* tokens; the empty string is the empty sequence of lines.                *)
(*                                                                         *)
(* The calls into the planner, the test generator and the patch generator  *)
(* are modelled by their two outcomes, returning or raising.  With the     *)
(* agent classes of src/src/agents the call at orchestrator.py:214 names a *)
(* method (generate_unit_tests) that TestGeneratorAgent does not define,   *)
(* and the call at orchestrator.py:188 passes a keyword (test_errors) that *)
(* FixerAgent.fix_code does not accept: for these classes the raising      *)
(* outcome is the one that occurs, the returning outcome is that of a      *)
(* collaborator which provides the interface the node calls.               *)
(* log_experiment (src/utils/logger.py) is modelled as an append to the    *)
(* telemetry log that returns normally.                                    *)
(***************************************************************************)
EXTENDS Integers, Sequences, FiniteSets, TLC

----------------------------------------------------------------------------
(* Bounds of the model *)

MaxIterBound == 3
NumFiles == 2
MaxMsgs == 11
MaxTick == 1

(* Program constants *)

QualityThreshold == 80
FeedbackLineCap == 20

FileNames == <<"a.py", "b.py", "c.py", "d.py", "e.py">>
Files == {FileNames[i] : i \in 1..NumFiles}

FileIndex(f) == CHOOSE i \in 1..Len(FileNames) : FileNames[i] = f

RECURSIVE SortedFiles(_)
SortedFiles(S) ==
    IF S = {} THEN <<>>
    ELSE LET f == CHOOSE x \in S : \A y \in S : FileIndex(x) <= FileIndex(y)
         IN <<f>> \o SortedFiles(S \ {f})

----------------------------------------------------------------------------
(* Test Runner: RefactoringTools.run_pytest and the run_pytest adapter *)

RunnerOutcomes == {"passed", "failed_marked", "failed_unmarked", "failed_silent",
                   "timeout", "missing"}

RunnerText(ro) ==
    CASE ro = "passed" ->
           << <<"test_a.py", "::", "test_ok", "PASSED">>, <<"1", "passed">> >>
      [] ro = "failed_marked" ->
           << <<"FAILED", "test_a.py", "::", "test_div", "-", "ZeroDivisionError">>,
              <<"1", "failed">> >>
      [] ro = "failed_unmarked" ->
           << <<"ERROR", "collecting", "test_a.py">> >>
      [] OTHER -> << <<>> >>

Tools_run_pytest(ro) ==
    IF ro = "timeout"
    THEN [success |-> FALSE, has_full_output |-> FALSE, full_output |-> <<>>,
          error |-> "Pytest execution timed out (60s limit)"]
    ELSE IF ro = "missing"
    THEN [success |-> FALSE, has_full_output |-> FALSE, full_output |-> <<>>,
          error |-> "Pytest is not installed. Run: pip install pytest"]
    ELSE [success |-> (ro = "passed"), has_full_output |-> TRUE,
          full_output |-> RunnerText(ro), error |-> ""]

run_pytest(ro) ==
    LET result == Tools_run_pytest(ro)
    IN [success |-> result.success,
        output |-> IF result.has_full_output THEN result.full_output ELSE <<>>]

----------------------------------------------------------------------------
(* Code Inspector: RefactoringTools.run_pylint and the run_pylint adapter *)

InspectorOutcomes == {"s80", "s79", "noscore", "timeout", "missing"}

_extract_pylint_score(io) ==
    CASE io = "s80" -> [has |-> TRUE, value |-> 80]
      [] io = "s79" -> [has |-> TRUE, value |-> 79]
      [] OTHER -> [has |-> FALSE, value |-> 0]

InspectorMsgs(io) ==
    CASE io = "s79" -> MaxMsgs
      [] OTHER -> 0

Tools_run_pylint(io) ==
    IF io = "timeout"
    THEN [success |-> FALSE, error |-> "Pylint analysis timed out (30s limit)",
          score |-> [has |-> FALSE, value |-> 0], nmsgs |-> 0]
    ELSE IF io = "missing"
    THEN [success |-> FALSE, error |-> "Pylint is not installed. Run: pip install pylint",
          score |-> [has |-> FALSE, value |-> 0], nmsgs |-> 0]
    ELSE [success |-> TRUE, error |-> "",
          score |-> _extract_pylint_score(io), nmsgs |-> InspectorMsgs(io)]

run_pylint(io) ==
    LET result == Tools_run_pylint(io)
    IN [raised |-> ~result.success, error |-> result.error, result |-> result]

----------------------------------------------------------------------------
(* Validator: JudgeAgent *)

HasToken(line, tok) == \E i \in 1..Len(line) : line[i] = tok

SepPositions(line) == {i \in 1..Len(line) : line[i] = "::"}

Min(S) == CHOOSE x \in S : \A y \in S : x <= y

\* line.split("::")[0] and line.split("::")[1], for a line holding "::"
SplitPart0(line) == SubSeq(line, 1, Min(SepPositions(line)) - 1)

SplitPart1(line) ==
    LET first == Min(SepPositions(line))
        rest == {i \in SepPositions(line) : i > first}
        last == IF rest = {} THEN Len(line) ELSE Min(rest) - 1
    IN SubSeq(line, first + 1, last)

UnknownFailure ==
    [file |-> <<"unknown">>, test |-> <<"unknown">>,
     error |-> << <<"Unable", "to", "clearly", "identify", "failing", "test.">> >>]

RECURSIVE MarkedFailures(_)
MarkedFailures(lines) ==
    IF lines = <<>> THEN <<>>
    ELSE LET line == Head(lines)
         IN (IF HasToken(line, "FAILED") /\ HasToken(line, "::")
             THEN << [file |-> SplitPart0(line), test |-> SplitPart1(line),
                      error |-> <<line>>] >>
             ELSE <<>>) \o MarkedFailures(Tail(lines))

_extract_failures(pytest_output) ==
    LET failures == MarkedFailures(pytest_output)
    IN IF failures = <<>> /\ pytest_output # <<>>
       THEN <<UnknownFailure>>
       ELSE failures

ScoreText(v) == CASE v = 80 -> "8.0" [] v = 79 -> "7.9" [] OTHER -> "0"

RECURSIVE MsgLines(_)
MsgLines(n) == IF n = 0 THEN <<>> ELSE MsgLines(n - 1) \o << << <<"-", "msg">> >> >>

\* the items appended to lint_errors after its heading; an item is a piece of
\* text: the item of a file starts with a line break ("\nFile: ..."), so it is
\* an empty line followed by the File line, the item of a message is one line
RECURSIVE LintErrorLines(_, _)
LintErrorLines(fileSeq, results) ==
    IF fileSeq = <<>> THEN <<>>
    ELSE LET f == Head(fileSeq)
             res == results[f]
         IN (IF res.score.value < QualityThreshold
             THEN << << <<>>, <<"File:", f, "Score:", ScoreText(res.score.value)>> >> >>
                  \o MsgLines(res.nmsgs)
             ELSE <<>>) \o LintErrorLines(Tail(fileSeq), results)

\* the feedback of the quality gate without its cap
FirstLines_NoCap(s, n) == s

\* lint_errors[:n]
FirstLines(s, n) == SubSeq(s, 1, IF Len(s) < n THEN Len(s) ELSE n)

\* "\n".join(items): the lines of the items, one item after the other
RECURSIVE JoinLines(_)
JoinLines(items) ==
    IF items = <<>> THEN <<>> ELSE Head(items) \o JoinLines(Tail(items))

\* JudgeAgent.run_tests(target_dir) for the runner outcome ro, the source
\* files found under target_dir and the inspector outcome io[f] of each.
\* the verdict succeeding as soon as one of the two gates is passed
run_tests_EitherSuffices(ro, files, io) ==
    LET pytest_result == run_pytest(ro)
        tests_passed == pytest_result.success
        output == pytest_result.output
        linted == IF tests_passed THEN {f \in files : ~run_pylint(io[f]).raised} ELSE {}
        pylint_results == [f \in linted |-> run_pylint(io[f]).result]
        pylint_success == \A f \in linted :
                              ~(pylint_results[f].score.has
                                /\ pylint_results[f].score.value < QualityThreshold)
        global_success == tests_passed \/ pylint_success
        \* judge.py:99-100 compares every recorded score with 8.0 again, outside
        \* any try block: a score of None raises TypeError there
        raised == ~global_success /\ tests_passed
                  /\ \E f \in linted : ~pylint_results[f].score.has
        lint_errors == << << <<"PYLINT", "QUALITY", "CHECK", "FAILED">> >> >>
                       \o LintErrorLines(SortedFiles(linted), pylint_results)
        failing_tests ==
            _extract_failures(output)
            \o (IF tests_passed /\ ~pylint_success
                THEN << [file |-> <<"Quality", "Gate">>,
                         test |-> <<"Pylint", "Analysis">>,
                         error |-> JoinLines(FirstLines(lint_errors, FeedbackLineCap))] >>
                ELSE <<>>)
    IN [raised |-> raised,
        inspected |-> IF tests_passed THEN files ELSE {},
        error |-> IF raised THEN "TypeError: '<' not supported" ELSE "",
        result |-> IF global_success
                   THEN [status |-> "success", failing_tests |-> <<>>,
                         pylint_results |-> pylint_results]
                   ELSE [status |-> "failure",
                         failing_tests |-> IF raised THEN <<>> ELSE failing_tests,
                         pylint_results |-> pylint_results]]

\* the quality checks run whatever the tests did
run_tests_AlwaysInspects(ro, files, io) ==
    LET pytest_result == run_pytest(ro)
        tests_passed == pytest_result.success
        output == pytest_result.output
        linted == {f \in files : ~run_pylint(io[f]).raised}
        pylint_results == [f \in linted |-> run_pylint(io[f]).result]
        pylint_success == \A f \in linted :
                              ~(pylint_results[f].score.has
                                /\ pylint_results[f].score.value < QualityThreshold)
        global_success == tests_passed /\ pylint_success
        \* judge.py:99-100 compares every recorded score with 8.0 again, outside
        \* any try block: a score of None raises TypeError there
        raised == ~global_success /\ tests_passed
                  /\ \E f \in linted : ~pylint_results[f].score.has
        lint_errors == << << <<"PYLINT", "QUALITY", "CHECK", "FAILED">> >> >>
                       \o LintErrorLines(SortedFiles(linted), pylint_results)
        failing_tests ==
            _extract_failures(output)
            \o (IF tests_passed /\ ~pylint_success
                THEN << [file |-> <<"Quality", "Gate">>,
                         test |-> <<"Pylint", "Analysis">>,
                         error |-> JoinLines(FirstLines(lint_errors, FeedbackLineCap))] >>
                ELSE <<>>)
    IN [raised |-> raised,
        inspected |-> files,
        error |-> IF raised THEN "TypeError: '<' not supported" ELSE "",
        result |-> IF global_success
                   THEN [status |-> "success", failing_tests |-> <<>>,
                         pylint_results |-> pylint_results]
                   ELSE [status |-> "failure",
                         failing_tests |-> IF raised THEN <<>> ELSE failing_tests,
                         pylint_results |-> pylint_results]]

run_tests(ro, files, io) ==
    LET pytest_result == run_pytest(ro)
        tests_passed == pytest_result.success
        output == pytest_result.output
        linted == IF tests_passed THEN {f \in files : ~run_pylint(io[f]).raised} ELSE {}
        pylint_results == [f \in linted |-> run_pylint(io[f]).result]
        pylint_success == \A f \in linted :
                              ~(pylint_results[f].score.has
                                /\ pylint_results[f].score.value < QualityThreshold)
        global_success == tests_passed /\ pylint_success
        \* judge.py:99-100 compares every recorded score with 8.0 again, outside
        \* any try block: a score of None raises TypeError there
        raised == ~global_success /\ tests_passed
                  /\ \E f \in linted : ~pylint_results[f].score.has
        lint_errors == << << <<"PYLINT", "QUALITY", "CHECK", "FAILED">> >> >>
                       \o LintErrorLines(SortedFiles(linted), pylint_results)
        failing_tests ==
            _extract_failures(output)
            \o (IF tests_passed /\ ~pylint_success
                THEN << [file |-> <<"Quality", "Gate">>,
                         test |-> <<"Pylint", "Analysis">>,
                         error |-> JoinLines(FirstLines(lint_errors, FeedbackLineCap))] >>
                ELSE <<>>)
    IN [raised |-> raised,
        inspected |-> IF tests_passed THEN files ELSE {},
        error |-> IF raised THEN "TypeError: '<' not supported" ELSE "",
        result |-> IF global_success
                   THEN [status |-> "success", failing_tests |-> <<>>,
                         pylint_results |-> pylint_results]
                   ELSE [status |-> "failure",
                         failing_tests |-> IF raised THEN <<>> ELSE failing_tests,
                         pylint_results |-> pylint_results]]

----------------------------------------------------------------------------
(* Analysis Planner: AuditorAgent.analyze *)

\* the planner's answers for the analysed files: a conforming object (with no
\* issue, or one issue per file), an object of another shape (the one with a
\* "files_analyzed" list of the files), a JSON value that is no object, text
\* that is no JSON, or a failed call
PlannerResponses(files) ==
    {[kind |-> "issues", issues |-> SortedFiles(S), files_analyzed |-> <<>>] :
         S \in {{}, files}}
    \cup {[kind |-> "dict_other", issues |-> <<>>, files_analyzed |-> SortedFiles(files)]}
    \cup {[kind |-> k, issues |-> <<>>, files_analyzed |-> <<>>] :
              k \in {"list", "unparseable", "api_error"}}

EmptyPlan ==
    [kind |-> "empty", issues |-> <<>>, files_analyzed |-> <<>>,
     has_errors |-> FALSE, errors |-> <<>>]

\* AuditorAgent.analyze for the listed files, the inspector outcome aio[f] of
\* each and the planner's response resp
analyze(files, aio, resp) ==
    LET failing == {f \in files : run_pylint(aio[f]).raised}
        first == CHOOSE f \in failing : \A g \in failing : FileIndex(f) <= FileIndex(g)
    IN IF failing # {}
       THEN [raised |-> TRUE, error |-> run_pylint(aio[first]).error, result |-> EmptyPlan]
       ELSE IF resp.kind = "api_error"
       THEN [raised |-> TRUE, error |-> "planner call failed", result |-> EmptyPlan]
       ELSE IF resp.kind = "unparseable"
       THEN [raised |-> TRUE, error |-> "LLM response is not valid JSON", result |-> EmptyPlan]
       ELSE [raised |-> FALSE, error |-> "",
             result |-> [kind |-> resp.kind, issues |-> resp.issues,
                         files_analyzed |-> resp.files_analyzed,
                         has_errors |-> FALSE, errors |-> <<>>]]

----------------------------------------------------------------------------
(* Patch Generator: FixerAgent.fix_code *)

\* the record fix_code returns before any Fix stage has run: the {} of run()
NoFixResults == [iteration |-> 0, total_files |-> 0, successful_fixes |-> 0,
                 results |-> <<>>]

\* FixerAgent.fix_code when every fix_file returns: fix_file, and in it the
\* Patch Generator, is called once for each entry of the plan's
\* "files_analyzed" list, in order, with the plan's "errors" when that is a
\* non-empty text and with None otherwise
fix_code(refactoring_plan) ==
    LET files_to_fix == refactoring_plan.files_analyzed
        error_feedback == IF refactoring_plan.has_errors /\ refactoring_plan.errors # <<>>
                          THEN [lines |-> refactoring_plan.errors, none |-> FALSE]
                          ELSE [lines |-> <<>>, none |-> TRUE]
        results == [i \in 1..Len(files_to_fix) |->
                       [file |-> files_to_fix[i], success |-> TRUE,
                        error_feedback |-> error_feedback]]
    IN [iteration |-> 1,
        total_files |-> Len(files_to_fix),
        successful_fixes |-> Len(results),
        results |-> results]

----------------------------------------------------------------------------
(* Sandboxed file store: RefactoringTools and the file_operations adapters *)

\* A path is the list of its components, relative or absolute; ".." is a
\* component like another until the path is resolved.  The process runs in
\* /work and the sandbox is ./sandbox.
SandboxPath == <<"work", "sandbox">>

PathInputs ==
    {[abs |-> FALSE, parts |-> <<"a.py">>],
     [abs |-> FALSE, parts |-> <<"pkg", "a.py">>],
     [abs |-> FALSE, parts |-> <<"pkg", "..", "..", "src", "m.py">>],
     [abs |-> TRUE, parts |-> <<"etc", "m.py">>]}

\* Path.resolve() on the components: ".." removes the component before it
RECURSIVE ResolveFrom(_, _)
ResolveFrom(acc, parts) ==
    IF parts = <<>> THEN acc
    ELSE IF Head(parts) = ".."
    THEN ResolveFrom(IF acc = <<>> THEN acc ELSE SubSeq(acc, 1, Len(acc) - 1),
                     Tail(parts))
    ELSE ResolveFrom(Append(acc, Head(parts)), Tail(parts))

Resolve(parts) == ResolveFrom(<<>>, parts)

\* full.relative_to(base) does not raise
IsRelativeTo(full, base) ==
    Len(full) >= Len(base) /\ SubSeq(full, 1, Len(base)) = base

\* the guard comparing the path as written, before ".." is resolved
_safe_path_Unresolved(target_path) ==
    LET written == IF ~target_path.abs
                   THEN SandboxPath \o target_path.parts
                   ELSE target_path.parts
    IN [raised |-> ~IsRelativeTo(written, SandboxPath), path |-> Resolve(written)]

_safe_path(target_path) ==
    LET full_path == IF ~target_path.abs
                     THEN Resolve(SandboxPath \o target_path.parts)
                     ELSE Resolve(target_path.parts)
    IN [raised |-> ~IsRelativeTo(full_path, SandboxPath), path |-> full_path]

\* sandbox_security.validate_path, with the same root ./sandbox
validate_path(file_path) ==
    LET full_path == IF file_path.abs
                     THEN Resolve(file_path.parts)
                     ELSE Resolve(SandboxPath \o file_path.parts)
    IN [raised |-> ~IsRelativeTo(full_path, SandboxPath), path |-> full_path]

\* the files of the model's disk, by resolved path
Universe == {Resolve(IF p.abs THEN p.parts ELSE SandboxPath \o p.parts) : p \in PathInputs}

Absent == "absent"
Contents == {"c1", "c2"}

\* Path.stem of a file name
Stem(name) ==
    CASE name = "a.py" -> "a"
      [] name = "m.py" -> "m"
      [] OTHER -> name

Stems == {Stem(p[Len(p)]) : p \in Universe}

\* a file of the .backups directory: f"{stem}_{timestamp}{suffix}"
BackupNames == [stem : Stems, ts : 0..MaxTick, suffix : {".py"}]

NoBackup == [stem |-> "", ts |-> 0, suffix |-> ""]

\* the disk: the content of each file (Absent when it does not exist) and of
\* each file of .backups
EmptyDisk ==
    [fs |-> [p \in Universe |-> Absent], backups |-> [b \in BackupNames |-> Absent]]

NoPath == [abs |-> FALSE, parts |-> <<>>]

\* no call of a tool of the file store yet
NoOp == [name |-> "none", path |-> NoPath, content |-> Absent, source |-> <<>>,
         create_backup |-> FALSE, before |-> Absent,
         backup |-> NoBackup, backup2 |-> NoBackup, success |-> FALSE]

Tools_read_file(d, file_name) ==
    LET safe_path == _safe_path(file_name)
    IN IF safe_path.raised
       THEN [success |-> FALSE, content |-> Absent, error |-> "SECURITY VIOLATION"]
       ELSE IF d.fs[safe_path.path] = Absent
       THEN [success |-> FALSE, content |-> Absent, error |-> "File not found"]
       ELSE [success |-> TRUE, content |-> d.fs[safe_path.path], error |-> ""]

\* create_backup at the second `now`; copy_ok is whether shutil.copy2 succeeds
Tools_create_backup(d, file_name, now, copy_ok) ==
    LET safe_path == _safe_path(file_name)
        backup_name == [stem |-> Stem(safe_path.path[Len(safe_path.path)]),
                        ts |-> now, suffix |-> ".py"]
    IN IF safe_path.raised
       THEN [success |-> FALSE, backup_path |-> NoBackup, d |-> d,
             error |-> "Error creating backup: SECURITY VIOLATION"]
       ELSE IF d.fs[safe_path.path] = Absent
       THEN [success |-> FALSE, backup_path |-> NoBackup, d |-> d,
             error |-> "Cannot backup non-existent file"]
       ELSE IF ~copy_ok
       THEN [success |-> FALSE, backup_path |-> NoBackup, d |-> d,
             error |-> "Error creating backup"]
       ELSE [success |-> TRUE, backup_path |-> backup_name,
             d |-> [d EXCEPT !.backups[backup_name] = d.fs[safe_path.path]],
             error |-> ""]

Tools_write_file(d, file_name, content, create_backup, now, copy_ok) ==
    LET safe_path == _safe_path(file_name)
        backs_up == create_backup /\ d.fs[safe_path.path] # Absent
        backup_result == Tools_create_backup(d, file_name, now, copy_ok)
        backup_path == IF backs_up /\ backup_result.success
                       THEN backup_result.backup_path ELSE NoBackup
        d1 == IF backs_up THEN backup_result.d ELSE d
    IN IF safe_path.raised
       THEN [success |-> FALSE, backup_path |-> NoBackup, d |-> d,
             error |-> "SECURITY VIOLATION"]
       ELSE [success |-> TRUE, backup_path |-> backup_path,
             d |-> [d1 EXCEPT !.fs[safe_path.path] = content], error |-> ""]

\* the process runs in /work; the reserved directory of the backups
Cwd == <<"work">>

BackupDir == SandboxPath \o <<".backups">>

\* A backup path is a path as written, and either the name of a backup file in
\* the directory it names or, with NoBackup, the path of a file itself.
\* The directory the file lies in, after Path.resolve():
BackupParent(backup_path) ==
    LET full == Resolve(IF backup_path.abs THEN backup_path.parts
                        ELSE Cwd \o backup_path.parts)
    IN IF backup_path.name # NoBackup THEN full
       ELSE IF full = <<>> THEN full ELSE SubSeq(full, 1, Len(full) - 1)

\* the content of the file a backup path names (Absent when there is none)
BackupContent(d, backup_path) ==
    LET full == Resolve(IF backup_path.abs THEN backup_path.parts
                        ELSE Cwd \o backup_path.parts)
    IN IF backup_path.name # NoBackup
       THEN (IF full = BackupDir THEN d.backups[backup_path.name] ELSE Absent)
       ELSE (IF full \in Universe THEN d.fs[full] ELSE Absent)

\* restore_backup without the test on the directory of the backup
Tools_restore_backup_AnyDir(d, backup_path, target_file) ==
    LET target_path == _safe_path(target_file)
    IN IF BackupContent(d, backup_path) = Absent
       THEN [success |-> FALSE, d |-> d, error |-> "Backup file not found"]
       ELSE IF target_path.raised
       THEN [success |-> FALSE, d |-> d, error |-> "Error restoring backup"]
       ELSE [success |-> TRUE,
             d |-> [d EXCEPT !.fs[target_path.path] = BackupContent(d, backup_path)],
             error |-> ""]

Tools_restore_backup(d, backup_path, target_file) ==
    LET target_path == _safe_path(target_file)
    IN IF ~IsRelativeTo(BackupParent(backup_path), BackupDir)
       THEN [success |-> FALSE, d |-> d,
             error |-> "Backup path must be in the .backups directory"]
       ELSE IF BackupContent(d, backup_path) = Absent
       THEN [success |-> FALSE, d |-> d, error |-> "Backup file not found"]
       ELSE IF target_path.raised
       THEN [success |-> FALSE, d |-> d, error |-> "Error restoring backup"]
       ELSE [success |-> TRUE,
             d |-> [d EXCEPT !.fs[target_path.path] = BackupContent(d, backup_path)],
             error |-> ""]

\* the *.py files Path.rglob finds under the sandbox root: the files that
\* exist there, and the files of .backups, which lies under the root
rglob_py(d) ==
    [files |-> {p \in Universe : IsRelativeTo(p, SandboxPath) /\ d.fs[p] # Absent},
     backups |-> {b \in BackupNames : d.backups[b] # Absent /\ b.suffix = ".py"}]

\* RefactoringTools.list_files: the files whose parents include the backup
\* directory are left out
Tools_list_files(d) ==
    [files |-> {p \in rglob_py(d).files : ~IsRelativeTo(p, BackupDir)},
     backups |-> {}]

\* the stems that start with "test_"
TestStems == {"test_a"}

\* the name filter of discover_python_files and of JudgeAgent.run_tests: not
\* a name starting with "test_", not "__init__.py"
IsSourceName(name) == Stem(name) \notin TestStems /\ name # "__init__.py"

\* the filter on a backup file, named f"{stem}_{timestamp}{suffix}"
IsSourceBackup(b) == b.stem \notin TestStems

\* LangGraphOrchestrator.discover_python_files on the sandbox root
discovered_python_files(d) ==
    [files |-> {p \in rglob_py(d).files : IsSourceName(p[Len(p)])},
     backups |-> {b \in rglob_py(d).backups : IsSourceBackup(b)}]

\* the files JudgeAgent.run_tests sends to the inspector, on the sandbox root
judged_python_files(d) ==
    [files |-> {p \in rglob_py(d).files : IsSourceName(p[Len(p)])},
     backups |-> {b \in rglob_py(d).backups : IsSourceBackup(b)}]

\* RefactoringTools.run_pylint on a file, io being what the pylint runs do
Tools_run_pylint_file(d, file_name, io) ==
    LET safe_path == _safe_path(file_name)
    IN IF safe_path.raised
       THEN [success |-> FALSE, error |-> "SECURITY VIOLATION"]
       ELSE IF d.fs[safe_path.path] = Absent
       THEN [success |-> FALSE, error |-> "File not found"]
       ELSE [success |-> Tools_run_pylint(io).success, error |-> Tools_run_pylint(io).error]

\* RefactoringTools.run_pytest on a target, ro being what the pytest run does
Tools_run_pytest_target(d, target, ro) ==
    LET test_path == _safe_path(target)
    IN IF test_path.raised
       THEN [success |-> FALSE, error |-> "SECURITY VIOLATION"]
       ELSE IF d.fs[test_path.path] = Absent
       THEN [success |-> FALSE, error |-> "Test target not found"]
       ELSE [success |-> Tools_run_pytest(ro).success, error |-> Tools_run_pytest(ro).error]

\* the directories of the model's disk: those the files of Universe lie in
Directories == UNION {{SubSeq(p, 1, n) : n \in 0..(Len(p) - 1)} : p \in Universe}

DirInputs ==
    {[abs |-> FALSE, parts |-> <<"pkg">>],
     [abs |-> FALSE, parts |-> <<"nodir">>],
     [abs |-> FALSE, parts |-> <<"..", "src">>],
     [abs |-> TRUE, parts |-> <<"etc">>]}

validate_target_dir(target_dir) ==
    LET safe_path == _safe_path(target_dir)
    IN IF safe_path.raised
       THEN [valid |-> FALSE, error |-> "SECURITY VIOLATION"]
       ELSE IF safe_path.path \notin Directories
       THEN [valid |-> FALSE, error |-> "Directory does not exist"]
       ELSE [valid |-> TRUE, error |-> ""]

\* what the Patch Generator answers: the code, bare or inside a markdown fence
Responses ==
    {[fence |-> "none", code |-> c] : c \in Contents}
    \cup {[fence |-> "python", code |-> "c1"]}

\* FixerAgent._clean_generated_code: the fence is taken off
_clean_generated_code(response) == response.code

\* FixerAgent.fix_file on a file of the plan: the backup is taken at the second
\* `now`, the Patch Generator answers `response` (or raises: llm_ok is false),
\* and the write happens at the second `later`
fix_file(d, file, llm_ok, response, now, later, copy_ok) ==
    LET checked == validate_path(file)
        fixed_code == _clean_generated_code(response)
        original_code == Tools_read_file(d, file)
        backup == Tools_create_backup(d, file, now, copy_ok)
        written == Tools_write_file(backup.d, file, fixed_code, TRUE, later, copy_ok)
    IN IF checked.raised
       THEN [raised |-> TRUE, error |-> "PermissionError", d |-> d, backups |-> <<>>]
       ELSE IF ~original_code.success
       THEN [raised |-> TRUE, error |-> "FileNotFoundError", d |-> d, backups |-> <<>>]
       ELSE IF ~backup.success
       THEN [raised |-> TRUE, error |-> "PermissionError", d |-> d, backups |-> <<>>]
       ELSE IF ~llm_ok
       THEN [raised |-> TRUE, error |-> "model call failed", d |-> backup.d,
             backups |-> <<backup.backup_path>>]
       ELSE [raised |-> FALSE, error |-> "", d |-> written.d,
             backups |-> <<backup.backup_path>>
                         \o (IF written.backup_path # NoBackup
                             THEN <<written.backup_path>> ELSE <<>>)]

----------------------------------------------------------------------------
(* Orchestration engine: LangGraphOrchestrator *)

VARIABLES pc, max_iterations, target_exists, fs_files, state, raised, result,
          log, stages, last_run, inspected,
          fs, backups, clock, op,
          cli, roots

\* the variables of the engine and those of the file store
orchVars == <<pc, max_iterations, target_exists, fs_files, state, raised, result,
              log, stages, last_run, inspected>>

storeVars == <<fs, backups, clock, op>>

auxVars == <<cli, roots>>

vars == <<orchVars, storeVars, auxVars>>

\* stages is the sequence of stages executed so far; last_run holds what the
\* test runner and the code inspector did in the last Validate, and inspected
\* the files the inspector was invoked on in that Validate; fs and backups
\* are the content of the files and of the files of .backups, clock the
\* current second, op the last call of a tool of the file store with its
\* outcome

EmptyVerdict == [status |-> "none", failing_tests |-> <<>>, pylint_results |-> <<>>]

NoFeedback == [none |-> TRUE, lines |-> <<>>]

NoResult == [returned |-> FALSE]

NotRaised == [is |-> FALSE, msg |-> ""]

NoRun == [runner |-> "none", inspector |-> <<>>]

\* the command line has not exited
NotExited == [exited |-> FALSE, code |-> 0, printed |-> "none"]

\* no stage has resolved a file
NoRoots ==
    [target_dir |-> NoPath, file |-> "", discovers |-> <<>>, audit_lists |-> <<>>,
     audit_reads |-> <<>>, fix_validates |-> <<>>, fix_writes |-> <<>>,
     validate_tests |-> <<>>, validate_inspects |-> <<>>]

\* the initial_state dictionary of run()
RefactoringState(files, n) ==
    [python_files |-> files,
     refactoring_plan |-> EmptyPlan,
     fix_results |-> NoFixResults,
     audit_completed |-> FALSE,
     tests_generated |-> FALSE,
     fix_completed |-> FALSE,
     current_iteration |-> 1,
     test_results |-> EmptyVerdict,
     tests_passed |-> FALSE,
     error_feedback |-> NoFeedback,
     max_iterations |-> n,
     should_continue |-> TRUE]

\* src.utils.logger.log_experiment: appends one record to the telemetry log
log_experiment(l, agent) == Append(l, agent)

\* n calls of log_experiment by one agent
RECURSIVE log_each(_, _, _)
log_each(l, agent, n) ==
    IF n = 0 THEN l ELSE log_each(log_experiment(l, agent), agent, n - 1)

InitialFiles == {{FileNames[i] : i \in 1..k} : k \in 0..NumFiles}

Init ==
    /\ pc = "start"
    /\ max_iterations \in 0..MaxIterBound
    /\ target_exists \in BOOLEAN
    /\ fs_files \in (IF target_exists THEN InitialFiles ELSE {{}})
    /\ state = RefactoringState({}, max_iterations)
    /\ raised = NotRaised
    /\ result = NoResult
    /\ log = <<>>
    /\ stages = <<>>
    /\ last_run = NoRun
    /\ inspected = {}
    /\ fs = EmptyDisk.fs
    /\ backups = EmptyDisk.backups
    /\ clock = 0
    /\ op = NoOp
    /\ cli = NotExited
    /\ roots = NoRoots

\* LangGraphOrchestrator.discover_python_files
discover_python_files(files) == files

\* run() going on without the test on the target directory
RunStart_IgnoresMissing ==
    /\ pc = "start"
    /\ state' = RefactoringState(discover_python_files(fs_files), max_iterations)
    /\ pc' = "auditor"
    /\ UNCHANGED <<storeVars, auxVars, max_iterations, target_exists, fs_files, raised, result, log,
                   stages, last_run, inspected>>

\* run(), up to the invocation of the graph
RunStart ==
    /\ pc = "start"
    /\ IF ~target_exists
       THEN /\ result' = [success |-> FALSE, error |-> "The directory does not exist!"]
            /\ pc' = "returned"
            /\ UNCHANGED state
       ELSE /\ state' = RefactoringState(discover_python_files(fs_files), max_iterations)
            /\ pc' = "auditor"
            /\ UNCHANGED result
    /\ UNCHANGED <<storeVars, auxVars, max_iterations, target_exists, fs_files, raised, log,
                   stages, last_run, inspected>>

_auditor_node ==
    /\ pc = "auditor"
    /\ stages' = Append(stages, "auditor")
    /\ \E aio \in [fs_files -> InspectorOutcomes], resp \in PlannerResponses(fs_files) :
         LET a == analyze(fs_files, aio, resp)
         IN IF a.raised
            THEN /\ raised' = [is |-> TRUE, msg |-> a.error]
                 /\ pc' = "except"
                 /\ UNCHANGED <<state, log>>
            ELSE /\ state' = [state EXCEPT !.refactoring_plan = a.result,
                                           !.audit_completed = TRUE,
                                           !.current_iteration = 1]
                 /\ log' = log_experiment(log, "Auditor_Agent")
                 /\ pc' = "test_generator"
                 /\ UNCHANGED raised
    /\ UNCHANGED <<storeVars, auxVars, max_iterations, target_exists, fs_files, result, last_run,
                   inspected>>

\* the test generator node wired to the fixer node (no initial Validate)
_test_generator_node_ToFixer ==
    /\ pc = "test_generator"
    /\ stages' = Append(stages, "test_generator")
    /\ IF state.tests_generated
       THEN /\ pc' = "fixer"
            /\ UNCHANGED <<state, fs_files, log, raised>>
       ELSE \E outcome \in {"returned", "raised"} :
              IF outcome = "raised"
              THEN /\ raised' = [is |-> TRUE, msg |-> "test generation failed"]
                   /\ pc' = "except"
                   /\ UNCHANGED <<state, fs_files, log>>
              ELSE /\ \E generated \in InitialFiles :
                        fs_files' = IF fs_files = {} THEN generated ELSE fs_files
                   /\ state' = [state EXCEPT !.tests_generated = TRUE]
                   /\ log' = log_experiment(log, "TestGenerator_Agent")
                   /\ pc' = "fixer"
                   /\ UNCHANGED raised
    /\ UNCHANGED <<storeVars, auxVars, max_iterations, target_exists, result, last_run, inspected>>

\* the node generating the tests without recording that it did
_test_generator_node_FlagUnset ==
    /\ pc = "test_generator"
    /\ stages' = Append(stages, "test_generator")
    /\ IF state.tests_generated
       THEN /\ pc' = "judge"
            /\ UNCHANGED <<state, fs_files, log, raised>>
       ELSE \E outcome \in {"returned", "raised"} :
              IF outcome = "raised"
              THEN /\ raised' = [is |-> TRUE, msg |-> "test generation failed"]
                   /\ pc' = "except"
                   /\ UNCHANGED <<state, fs_files, log>>
              ELSE /\ \E generated \in InitialFiles :
                        fs_files' = IF fs_files = {} THEN generated ELSE fs_files
                   /\ UNCHANGED state
                   /\ log' = log_experiment(log, "TestGenerator_Agent")
                   /\ pc' = "judge"
                   /\ UNCHANGED raised
    /\ UNCHANGED <<storeVars, auxVars, max_iterations, target_exists, result, last_run, inspected>>

_test_generator_node ==
    /\ pc = "test_generator"
    /\ stages' = Append(stages, "test_generator")
    /\ IF state.tests_generated
       THEN /\ pc' = "judge"
            /\ UNCHANGED <<state, fs_files, log, raised>>
       ELSE \E outcome \in {"returned", "raised"} :
              IF outcome = "raised"
              THEN /\ raised' = [is |-> TRUE, msg |-> "test generation failed"]
                   /\ pc' = "except"
                   /\ UNCHANGED <<state, fs_files, log>>
              ELSE /\ \E generated \in InitialFiles :
                        fs_files' = IF fs_files = {} THEN generated ELSE fs_files
                   /\ state' = [state EXCEPT !.tests_generated = TRUE]
                   /\ log' = log_experiment(log, "TestGenerator_Agent")
                   /\ pc' = "judge"
                   /\ UNCHANGED raised
    /\ UNCHANGED <<storeVars, auxVars, max_iterations, target_exists, result, last_run, inspected>>

FeedbackHeader ==
    [file |-> <<"TEST", "FAILURES">>, test |-> <<>>, error |-> <<>>]

\* the text joined from feedback_messages in _judge_node
FeedbackText(failing_tests) ==
    IF failing_tests # <<>> THEN <<FeedbackHeader>> \o failing_tests ELSE <<>>

InspectorChoices(ro, files) ==
    IF ro = "passed" THEN [files -> InspectorOutcomes]
    ELSE {[f \in files |-> "notrun"]}

\* the node removing the plan's errors when the verdict is a success
_judge_node_ClearsErrors ==
    /\ pc = "judge"
    /\ stages' = Append(stages, "judge")
    /\ \E ro \in RunnerOutcomes :
       \E io \in InspectorChoices(ro, fs_files) :
         LET r == run_tests(ro, fs_files, io)
             test_results == r.result
             tests_passed == test_results.status = "success"
             error_feedback == [none |-> FALSE,
                                lines |-> FeedbackText(test_results.failing_tests)]
             judged == [state EXCEPT !.test_results = test_results,
                                     !.tests_passed = tests_passed]
         IN /\ last_run' = [runner |-> ro, inspector |-> io]
            /\ inspected' = r.inspected
            /\ IF r.raised
               THEN /\ raised' = [is |-> TRUE, msg |-> r.error]
                    /\ pc' = "except"
                    /\ UNCHANGED <<state, log>>
               ELSE /\ log' = log_experiment(log, "Judge_Agent")
                    /\ IF tests_passed
                       THEN /\ state' = [judged EXCEPT
                                           !.refactoring_plan.has_errors = FALSE,
                                           !.refactoring_plan.errors = <<>>]
                            /\ pc' = "decide"
                            /\ UNCHANGED raised
                       ELSE IF state.refactoring_plan.kind = "list"
                       THEN \* item assignment on a plan that is not a dictionary
                            /\ state' = [judged EXCEPT !.error_feedback = error_feedback]
                            /\ raised' = [is |-> TRUE, msg |-> "TypeError: plan is not a dict"]
                            /\ pc' = "except"
                       ELSE /\ state' = [judged EXCEPT
                                           !.error_feedback = error_feedback,
                                           !.refactoring_plan.has_errors = TRUE,
                                           !.refactoring_plan.errors = error_feedback.lines]
                            /\ pc' = "decide"
                            /\ UNCHANGED raised
    /\ UNCHANGED <<storeVars, auxVars, max_iterations, target_exists, fs_files, result>>

\* the node keeping the feedback of the first failed Validate
_judge_node_KeepsFirstErrors ==
    /\ pc = "judge"
    /\ stages' = Append(stages, "judge")
    /\ \E ro \in RunnerOutcomes :
       \E io \in InspectorChoices(ro, fs_files) :
         LET r == run_tests(ro, fs_files, io)
             test_results == r.result
             tests_passed == test_results.status = "success"
             error_feedback == [none |-> FALSE,
                                lines |-> FeedbackText(test_results.failing_tests)]
             judged == [state EXCEPT !.test_results = test_results,
                                     !.tests_passed = tests_passed]
         IN /\ last_run' = [runner |-> ro, inspector |-> io]
            /\ inspected' = r.inspected
            /\ IF r.raised
               THEN /\ raised' = [is |-> TRUE, msg |-> r.error]
                    /\ pc' = "except"
                    /\ UNCHANGED <<state, log>>
               ELSE /\ log' = log_experiment(log, "Judge_Agent")
                    /\ IF tests_passed
                       THEN /\ state' = judged
                            /\ pc' = "decide"
                            /\ UNCHANGED raised
                       ELSE IF state.refactoring_plan.kind = "list"
                       THEN \* item assignment on a plan that is not a dictionary
                            /\ state' = [judged EXCEPT !.error_feedback = error_feedback]
                            /\ raised' = [is |-> TRUE, msg |-> "TypeError: plan is not a dict"]
                            /\ pc' = "except"
                       ELSE /\ state' = IF state.refactoring_plan.has_errors
                                      THEN judged
                                      ELSE [judged EXCEPT
                                              !.error_feedback = error_feedback,
                                              !.refactoring_plan.has_errors = TRUE,
                                              !.refactoring_plan.errors = error_feedback.lines]
                            /\ pc' = "decide"
                            /\ UNCHANGED raised
    /\ UNCHANGED <<storeVars, auxVars, max_iterations, target_exists, fs_files, result>>

_judge_node ==
    /\ pc = "judge"
    /\ stages' = Append(stages, "judge")
    /\ \E ro \in RunnerOutcomes :
       \E io \in InspectorChoices(ro, fs_files) :
         LET r == run_tests(ro, fs_files, io)
             test_results == r.result
             tests_passed == test_results.status = "success"
             error_feedback == [none |-> FALSE,
                                lines |-> FeedbackText(test_results.failing_tests)]
             judged == [state EXCEPT !.test_results = test_results,
                                     !.tests_passed = tests_passed]
         IN /\ last_run' = [runner |-> ro, inspector |-> io]
            /\ inspected' = r.inspected
            /\ IF r.raised
               THEN /\ raised' = [is |-> TRUE, msg |-> r.error]
                    /\ pc' = "except"
                    /\ UNCHANGED <<state, log>>
               ELSE /\ log' = log_experiment(log, "Judge_Agent")
                    /\ IF tests_passed
                       THEN /\ state' = judged
                            /\ pc' = "decide"
                            /\ UNCHANGED raised
                       ELSE IF state.refactoring_plan.kind = "list"
                       THEN \* item assignment on a plan that is not a dictionary
                            /\ state' = [judged EXCEPT !.error_feedback = error_feedback]
                            /\ raised' = [is |-> TRUE, msg |-> "TypeError: plan is not a dict"]
                            /\ pc' = "except"
                       ELSE /\ state' = [judged EXCEPT
                                           !.error_feedback = error_feedback,
                                           !.refactoring_plan.has_errors = TRUE,
                                           !.refactoring_plan.errors = error_feedback.lines]
                            /\ pc' = "decide"
                            /\ UNCHANGED raised
    /\ UNCHANGED <<storeVars, auxVars, max_iterations, target_exists, fs_files, result>>

\* the edge with the ceiling compared too late: two Fix stages too many
_should_continue_or_stop_LateCeiling ==
    /\ pc = "decide"
    /\ IF state.tests_passed
       THEN /\ state' = [state EXCEPT !.should_continue = FALSE]
            /\ pc' = "END"
       ELSE IF state.current_iteration > state.max_iterations + 1
       THEN /\ state' = [state EXCEPT !.should_continue = FALSE]
            /\ pc' = "END"
       ELSE /\ state' = [state EXCEPT !.current_iteration = @ + 1,
                                      !.should_continue = TRUE]
            /\ pc' = "fixer"
    /\ UNCHANGED <<storeVars, auxVars, max_iterations, target_exists, fs_files, raised, result, log,
                   stages, last_run, inspected>>

\* the edge whose 'continue' branch neither counts nor leaves the decision
_should_continue_or_stop_NoProgress ==
    /\ pc = "decide"
    /\ IF state.tests_passed
       THEN /\ state' = [state EXCEPT !.should_continue = FALSE]
            /\ pc' = "END"
       ELSE IF state.current_iteration >= state.max_iterations
       THEN /\ state' = [state EXCEPT !.should_continue = FALSE]
            /\ pc' = "END"
       ELSE /\ state' = [state EXCEPT !.should_continue = TRUE]
            /\ pc' = "decide"
    /\ UNCHANGED <<storeVars, auxVars, max_iterations, target_exists, fs_files, raised, result, log,
                   stages, last_run, inspected>>

\* the conditional edge after the judge node
\* the edge writing the result record when it stops on a success
_should_continue_or_stop_SetsResult ==
    /\ pc = "decide"
    /\ IF state.tests_passed
       THEN /\ state' = [state EXCEPT !.should_continue = FALSE]
            /\ result' = [success |-> TRUE,
                          iterations_needed |-> state.current_iteration,
                          test_result |-> state.test_results]
            /\ pc' = "END"
       ELSE IF state.current_iteration >= state.max_iterations
       THEN /\ state' = [state EXCEPT !.should_continue = FALSE]
            /\ pc' = "END"
            /\ UNCHANGED result
       ELSE /\ state' = [state EXCEPT !.current_iteration = @ + 1,
                                      !.should_continue = TRUE]
            /\ pc' = "fixer"
            /\ UNCHANGED result
    /\ UNCHANGED <<storeVars, auxVars, max_iterations, target_exists, fs_files, raised, log,
                   stages, last_run, inspected>>

_should_continue_or_stop ==
    /\ pc = "decide"
    /\ IF state.tests_passed
       THEN /\ state' = [state EXCEPT !.should_continue = FALSE]
            /\ pc' = "END"
       ELSE IF state.current_iteration >= state.max_iterations
       THEN /\ state' = [state EXCEPT !.should_continue = FALSE]
            /\ pc' = "END"
       ELSE /\ state' = [state EXCEPT !.current_iteration = @ + 1,
                                      !.should_continue = TRUE]
            /\ pc' = "fixer"
    /\ UNCHANGED <<storeVars, auxVars, max_iterations, target_exists, fs_files, raised, result, log,
                   stages, last_run, inspected>>

\* the fixer node wired back to the decision instead of the judge node
_fixer_node_SkipsValidate ==
    /\ pc = "fixer"
    /\ stages' = Append(stages, "fixer")
    /\ \E outcome \in {"returned", "raised"} :
         IF outcome = "raised"
         THEN /\ raised' = [is |-> TRUE, msg |-> "fix failed"]
              /\ pc' = "except"
              /\ UNCHANGED <<state, log>>
         ELSE /\ state' = [state EXCEPT !.fix_results = fix_code(state.refactoring_plan),
                                      !.fix_completed = TRUE]
              /\ log' = log_each(log, "Fixer_Agent",
                                 Len(state.refactoring_plan.files_analyzed))
              /\ pc' = "decide"
              /\ UNCHANGED raised
    /\ UNCHANGED <<storeVars, auxVars, max_iterations, target_exists, fs_files, result,
                   last_run, inspected>>

\* the Fix stage counting the iteration a second time
_fixer_node_Increments ==
    /\ pc = "fixer"
    /\ stages' = Append(stages, "fixer")
    /\ \E outcome \in {"returned", "raised"} :
         IF outcome = "raised"
         THEN /\ raised' = [is |-> TRUE, msg |-> "fix failed"]
              /\ pc' = "except"
              /\ UNCHANGED <<state, log>>
         ELSE /\ state' = [state EXCEPT !.fix_results = fix_code(state.refactoring_plan),
                                      !.fix_completed = TRUE,
                                      !.current_iteration = @ + 1]
              /\ log' = log_each(log, "Fixer_Agent",
                                 Len(state.refactoring_plan.files_analyzed))
              /\ pc' = "judge"
              /\ UNCHANGED raised
    /\ UNCHANGED <<storeVars, auxVars, max_iterations, target_exists, fs_files, result,
                   last_run, inspected>>

_fixer_node ==
    /\ pc = "fixer"
    /\ stages' = Append(stages, "fixer")
    /\ \E outcome \in {"returned", "raised"} :
         IF outcome = "raised"
         THEN /\ raised' = [is |-> TRUE, msg |-> "fix failed"]
              /\ pc' = "except"
              /\ UNCHANGED <<state, log>>
         ELSE /\ state' = [state EXCEPT !.fix_results = fix_code(state.refactoring_plan),
                                      !.fix_completed = TRUE]
              /\ log' = log_each(log, "Fixer_Agent",
                                 Len(state.refactoring_plan.files_analyzed))
              /\ pc' = "judge"
              /\ UNCHANGED raised
    /\ UNCHANGED <<storeVars, auxVars, max_iterations, target_exists, fs_files, result,
                   last_run, inspected>>

\* run() reporting exhaustion before it looks at tests_passed
RunFinish_CeilingFirst ==
    /\ pc = "END"
    /\ LET tests_passed == state.tests_passed
           iteration == state.current_iteration
           test_results == state.test_results
       IN result' = IF iteration >= max_iterations \/ ~tests_passed
                    THEN [success |-> FALSE,
                          iterations_needed |-> max_iterations,
                          reason |-> "Max iterations reached",
                          last_test_result |-> test_results]
                    ELSE [success |-> TRUE,
                          iterations_needed |-> iteration,
                          test_result |-> test_results]
    /\ log' = log_experiment(log, "LangGraph_Orchestrator")
    /\ pc' = "returned"
    /\ UNCHANGED <<storeVars, auxVars, max_iterations, target_exists, fs_files, state, raised, stages,
                   last_run, inspected>>

\* run() reporting exhaustion without the verdict of the last Validate
RunFinish_EmptyVerdict ==
    /\ pc = "END"
    /\ LET tests_passed == state.tests_passed
           iteration == state.current_iteration
           test_results == state.test_results
       IN result' = IF tests_passed
                    THEN [success |-> TRUE,
                          iterations_needed |-> iteration,
                          test_result |-> test_results]
                    ELSE [success |-> FALSE,
                          iterations_needed |-> max_iterations,
                          reason |-> "Max iterations reached",
                          last_test_result |-> EmptyVerdict]
    /\ log' = log_experiment(log, "LangGraph_Orchestrator")
    /\ pc' = "returned"
    /\ UNCHANGED <<storeVars, auxVars, max_iterations, target_exists, fs_files, state, raised, stages,
                   last_run, inspected>>

\* run(), after the graph returned: the final result is built and returned
RunFinish ==
    /\ pc = "END"
    /\ LET tests_passed == state.tests_passed
           iteration == state.current_iteration
           test_results == state.test_results
       IN result' = IF tests_passed
                    THEN [success |-> TRUE,
                          iterations_needed |-> iteration,
                          test_result |-> test_results]
                    ELSE [success |-> FALSE,
                          iterations_needed |-> max_iterations,
                          reason |-> "Max iterations reached",
                          last_test_result |-> test_results]
    /\ log' = log_experiment(log, "LangGraph_Orchestrator")
    /\ pc' = "returned"
    /\ UNCHANGED <<storeVars, auxVars, max_iterations, target_exists, fs_files, state, raised, stages,
                   last_run, inspected>>

\* the except clause answering with the exhausted-iterations record
RunExcept_AsExhausted ==
    /\ pc = "except"
    /\ result' = [success |-> FALSE,
                  iterations_needed |-> max_iterations,
                  reason |-> "Max iterations reached",
                  last_test_result |-> state.test_results]
    /\ pc' = "returned"
    /\ UNCHANGED <<storeVars, auxVars, max_iterations, target_exists, fs_files, state, raised, log,
                   stages, last_run, inspected>>

\* the except clause answering with a message of its own
RunExcept_GenericMessage ==
    /\ pc = "except"
    /\ result' = [success |-> FALSE, error |-> "internal error"]
    /\ pc' = "returned"
    /\ UNCHANGED <<storeVars, auxVars, max_iterations, target_exists, fs_files, state, raised, log,
                   stages, last_run, inspected>>

\* run(), the except clause around the graph
RunExcept ==
    /\ pc = "except"
    /\ result' = [success |-> FALSE, error |-> raised.msg]
    /\ pc' = "returned"
    /\ UNCHANGED <<storeVars, auxVars, max_iterations, target_exists, fs_files, state, raised, log,
                   stages, last_run, inspected>>

Next ==
    \/ RunStart
    \/ _auditor_node
    \/ _test_generator_node
    \/ _judge_node
    \/ _should_continue_or_stop
    \/ _fixer_node
    \/ RunFinish
    \/ RunExcept

Spec == Init /\ [][Next]_vars

\* the graph runtime runs the next node or edge whenever one is pending
FairSpec == Spec /\ WF_vars(Next)

----------------------------------------------------------------------------
(* The telemetry sink failing: a call of log_experiment raises *)

SinkError == "log sink unavailable"

\* the Audit whose planner answered, log_experiment raising in analyze
_auditor_node_SinkDown ==
    /\ pc = "auditor"
    /\ \E aio \in [fs_files -> InspectorOutcomes], resp \in PlannerResponses(fs_files) :
         ~analyze(fs_files, aio, resp).raised
    /\ stages' = Append(stages, "auditor")
    /\ raised' = [is |-> TRUE, msg |-> SinkError]
    /\ pc' = "except"
    /\ UNCHANGED <<storeVars, auxVars, max_iterations, target_exists, fs_files, state, result, log,
                   last_run, inspected>>

\* the test generation, log_experiment raising after the tests were written
_test_generator_node_SinkDown ==
    /\ pc = "test_generator"
    /\ ~state.tests_generated
    /\ stages' = Append(stages, "test_generator")
    /\ \E generated \in InitialFiles :
         fs_files' = IF fs_files = {} THEN generated ELSE fs_files
    /\ raised' = [is |-> TRUE, msg |-> SinkError]
    /\ pc' = "except"
    /\ UNCHANGED <<storeVars, auxVars, max_iterations, target_exists, state, result, log,
                   last_run, inspected>>

\* the Validate whose verdict was computed, log_experiment raising in run_tests
_judge_node_SinkDown ==
    /\ pc = "judge"
    /\ stages' = Append(stages, "judge")
    /\ \E ro \in RunnerOutcomes :
       \E io \in InspectorChoices(ro, fs_files) :
         LET r == run_tests(ro, fs_files, io)
         IN /\ last_run' = [runner |-> ro, inspector |-> io]
            /\ inspected' = r.inspected
            /\ ~r.raised
    /\ raised' = [is |-> TRUE, msg |-> SinkError]
    /\ pc' = "except"
    /\ UNCHANGED <<storeVars, auxVars, max_iterations, target_exists, fs_files, state, result, log>>

\* the Fix with a file to fix, log_experiment raising in fix_file
_fixer_node_SinkDown ==
    /\ pc = "fixer"
    /\ Len(state.refactoring_plan.files_analyzed) >= 1
    /\ stages' = Append(stages, "fixer")
    /\ raised' = [is |-> TRUE, msg |-> SinkError]
    /\ pc' = "except"
    /\ UNCHANGED <<storeVars, auxVars, max_iterations, target_exists, fs_files, state, result, log,
                   last_run, inspected>>

\* run() after the graph returned, log_experiment raising on the final result
RunFinish_SinkDown ==
    /\ pc = "END"
    /\ raised' = [is |-> TRUE, msg |-> SinkError]
    /\ pc' = "except"
    /\ UNCHANGED <<storeVars, auxVars, max_iterations, target_exists, fs_files, state, result, log,
                   stages, last_run, inspected>>

SinkNext ==
    \/ Next
    \/ _auditor_node_SinkDown
    \/ _test_generator_node_SinkDown
    \/ _judge_node_SinkDown
    \/ _fixer_node_SinkDown
    \/ RunFinish_SinkDown

SinkSpec == Init /\ [][SinkNext]_vars

----------------------------------------------------------------------------
(* The command line: main() of main.py around run() *)

\* main() is entered; it constructs the orchestrator with the default ceiling
\* (10), which the model draws from its bound as in Init
CliInit ==
    /\ pc = "main"
    /\ max_iterations \in 0..MaxIterBound
    /\ target_exists \in BOOLEAN
    /\ fs_files \in (IF target_exists THEN InitialFiles ELSE {{}})
    /\ state = RefactoringState({}, max_iterations)
    /\ raised = NotRaised
    /\ result = NoResult
    /\ log = <<>>
    /\ stages = <<>>
    /\ last_run = NoRun
    /\ inspected = {}
    /\ fs = EmptyDisk.fs
    /\ backups = EmptyDisk.backups
    /\ clock = 0
    /\ op = NoOp
    /\ cli = NotExited
    /\ roots = NoRoots

\* main() up to the call of run(): the test on the target directory, the
\* startup log record, and the constructor, which may raise
main ==
    /\ pc = "main"
    /\ IF ~target_exists
       THEN /\ cli' = [exited |-> TRUE, code |-> 1, printed |-> "Dossier introuvable"]
            /\ pc' = "exited"
            /\ UNCHANGED log
       ELSE \E constructed \in BOOLEAN :
              IF constructed
              THEN /\ log' = log_experiment(log, "System")
                   /\ pc' = "start"
                   /\ UNCHANGED cli
              ELSE /\ log' = log_experiment(log_experiment(log, "System"), "Orchestrator")
                   /\ cli' = [exited |-> TRUE, code |-> 1, printed |-> "Orchestrator failed"]
                   /\ pc' = "exited"
    /\ UNCHANGED <<storeVars, roots, max_iterations, target_exists, fs_files, state,
                   raised, result, stages, last_run, inspected>>

\* main() after run() returned: the record returned is dropped, the banner is
\* printed and the process ends with code 0
main_Complete ==
    /\ pc = "returned"
    /\ cli' = [exited |-> TRUE, code |-> 0, printed |-> "MISSION_COMPLETE"]
    /\ pc' = "exited"
    /\ UNCHANGED <<storeVars, roots, max_iterations, target_exists, fs_files, state,
                   raised, result, log, stages, last_run, inspected>>

CliNext ==
    \/ main
    \/ Next
    \/ main_Complete

CliSpec == CliInit /\ [][CliNext]_vars

----------------------------------------------------------------------------
(* The directory each stage resolves its files against *)

\* the target directories given to run(): the default as it is written, the
\* same directory by its absolute path, and another directory
TargetDirs ==
    {[abs |-> FALSE, parts |-> <<"sandbox">>],
     [abs |-> TRUE, parts |-> <<"work", "sandbox">>],
     [abs |-> FALSE, parts |-> <<"proj">>]}

\* RefactoringTools(base_sandbox).sandbox_path, and Path(target_dir) followed
\* from the working directory
ToolsRoot(base_sandbox) ==
    Resolve(IF base_sandbox.abs THEN base_sandbox.parts ELSE Cwd \o base_sandbox.parts)

\* the sandbox of file_operations and analysis_tools: RefactoringTools("./sandbox")
DefaultSandbox == [abs |-> FALSE, parts |-> <<"sandbox">>]

\* run(): discover_python_files lists target_path.rglob("*.py")
run_discovers(target_dir, name) == ToolsRoot(target_dir) \o <<name>>

\* Audit: file_operations.list_files(target_dir) lists the default sandbox
audit_lists(target_dir) == ToolsRoot(DefaultSandbox)

\* Audit: read_file and run_pylint on a listed name, relative to the default
\* sandbox
audit_reads(target_dir, name) == _safe_path([abs |-> FALSE, parts |-> <<name>>]).path

\* Fix: validate_path on the file of the plan, named as Audit listed it
fix_validates(target_dir, name) == validate_path([abs |-> FALSE, parts |-> <<name>>]).path

\* Fix: read_file, backup_file and write_file of file_operations on that file
fix_writes(target_dir, name) == _safe_path([abs |-> FALSE, parts |-> <<name>>]).path

\* Validate: test_tools.run_pytest(target_dir) makes RefactoringTools(target_dir)
\* and runs pytest on its root
validate_tests(target_dir) == ToolsRoot(target_dir)

\* Validate: run_pylint of analysis_tools on str(file_path), the path
\* target_dir / name as rglob gives it
validate_inspects(target_dir, name) ==
    _safe_path([abs |-> target_dir.abs, parts |-> target_dir.parts \o <<name>>]).path

RootInit ==
    /\ roots \in {[NoRoots EXCEPT !.target_dir = td, !.file = f] :
                     td \in TargetDirs, f \in Files}
    /\ cli = NotExited
    /\ fs = EmptyDisk.fs
    /\ backups = EmptyDisk.backups
    /\ clock = 0
    /\ op = NoOp
    /\ pc = "idle"
    /\ max_iterations = 0
    /\ target_exists = TRUE
    /\ fs_files = {}
    /\ state = RefactoringState({}, 0)
    /\ raised = NotRaised
    /\ result = NoResult
    /\ log = <<>>
    /\ stages = <<>>
    /\ last_run = NoRun
    /\ inspected = {}

Resolve_run_discovers ==
    /\ roots.discovers = <<>>
    /\ roots' = [roots EXCEPT !.discovers = run_discovers(roots.target_dir, roots.file)]
    /\ UNCHANGED <<orchVars, storeVars, cli>>

Resolve_audit_lists ==
    /\ roots.audit_lists = <<>>
    /\ roots' = [roots EXCEPT !.audit_lists = audit_lists(roots.target_dir)]
    /\ UNCHANGED <<orchVars, storeVars, cli>>

Resolve_audit_reads ==
    /\ roots.audit_reads = <<>>
    /\ roots' = [roots EXCEPT !.audit_reads = audit_reads(roots.target_dir, roots.file)]
    /\ UNCHANGED <<orchVars, storeVars, cli>>

Resolve_fix_validates ==
    /\ roots.fix_validates = <<>>
    /\ roots' = [roots EXCEPT !.fix_validates = fix_validates(roots.target_dir, roots.file)]
    /\ UNCHANGED <<orchVars, storeVars, cli>>

Resolve_fix_writes ==
    /\ roots.fix_writes = <<>>
    /\ roots' = [roots EXCEPT !.fix_writes = fix_writes(roots.target_dir, roots.file)]
    /\ UNCHANGED <<orchVars, storeVars, cli>>

Resolve_validate_tests ==
    /\ roots.validate_tests = <<>>
    /\ roots' = [roots EXCEPT !.validate_tests = validate_tests(roots.target_dir)]
    /\ UNCHANGED <<orchVars, storeVars, cli>>

Resolve_validate_inspects ==
    /\ roots.validate_inspects = <<>>
    /\ roots' = [roots EXCEPT
                   !.validate_inspects = validate_inspects(roots.target_dir, roots.file)]
    /\ UNCHANGED <<orchVars, storeVars, cli>>

RootNext ==
    \/ Resolve_run_discovers
    \/ Resolve_audit_lists
    \/ Resolve_audit_reads
    \/ Resolve_fix_validates
    \/ Resolve_fix_writes
    \/ Resolve_validate_tests
    \/ Resolve_validate_inspects

RootSpec == RootInit /\ [][RootNext]_vars

----------------------------------------------------------------------------
(* The file store used on its own: each action is one call of a tool *)

Disk == [fs |-> fs, backups |-> backups]

InSandbox(p) == IsRelativeTo(p, SandboxPath)

\* the files outside the sandbox exist; those inside exist or not
StoreInit ==
    /\ fs \in {f \in [Universe -> {Absent, "c1"}] :
                  \A p \in Universe : ~InSandbox(p) => f[p] = "c1"}
    /\ backups = EmptyDisk.backups
    /\ clock = 0
    /\ op = NoOp
    /\ cli = NotExited
    /\ roots = NoRoots
    /\ pc = "idle"
    /\ max_iterations = 0
    /\ target_exists = TRUE
    /\ fs_files = {}
    /\ state = RefactoringState({}, 0)
    /\ raised = NotRaised
    /\ result = NoResult
    /\ log = <<>>
    /\ stages = <<>>
    /\ last_run = NoRun
    /\ inspected = {}

\* the record of a call: the tool, the path and the content given to it,
\* whether a write was to take a backup, the content the file at that path had
\* before the call, the backups the call took, and whether it reported success
Called(name, p, content, create_backup, backup, backup2, success) ==
    [name |-> name, path |-> p, content |-> content, source |-> <<>>,
     create_backup |-> create_backup,
     before |-> fs[Resolve(IF p.abs THEN p.parts ELSE SandboxPath \o p.parts)],
     backup |-> backup, backup2 |-> backup2, success |-> success]

Do_read_file ==
    /\ \E p \in PathInputs :
         LET r == Tools_read_file(Disk, p)
         IN op' = Called("read_file", p, r.content, FALSE, NoBackup, NoBackup, r.success)
    /\ UNCHANGED <<orchVars, auxVars, fs, backups, clock>>

Do_write_file ==
    /\ \E p \in PathInputs, content \in Contents, create_backup \in BOOLEAN,
          copy_ok \in BOOLEAN :
         LET r == Tools_write_file(Disk, p, content, create_backup, clock, copy_ok)
         IN /\ ~create_backup => copy_ok
            /\ fs' = r.d.fs
            /\ backups' = r.d.backups
            /\ op' = Called("write_file", p, content, create_backup, r.backup_path, NoBackup, r.success)
    /\ UNCHANGED <<orchVars, auxVars, clock>>

Do_create_backup ==
    /\ \E p \in PathInputs, copy_ok \in BOOLEAN :
         LET r == Tools_create_backup(Disk, p, clock, copy_ok)
         IN /\ fs' = r.d.fs
            /\ backups' = r.d.backups
            /\ op' = Called("create_backup", p, Absent, FALSE, r.backup_path, NoBackup, r.success)
    /\ UNCHANGED <<orchVars, auxVars, clock>>

\* the backup paths given to restore_backup: the files .backups can hold (the
\* backups of the files of the sandbox) and one it never holds, a file
\* outside the sandbox, and a file of the sandbox written through .backups/..
BackupPathInputs ==
    {[abs |-> TRUE, parts |-> BackupDir, name |-> b] :
        b \in {n \in BackupNames : n.stem = "a" \/ n.ts = 0}}
    \cup {[abs |-> TRUE, parts |-> <<"etc", "m.py">>, name |-> NoBackup],
          [abs |-> TRUE, parts |-> BackupDir \o <<"..", "a.py">>, name |-> NoBackup]}

Do_restore_backup ==
    /\ \E b \in BackupPathInputs, p \in PathInputs :
         LET r == Tools_restore_backup(Disk, b, p)
         IN /\ fs' = r.d.fs
            /\ backups' = r.d.backups
            /\ op' = [Called("restore_backup", p, Absent, FALSE, b.name, NoBackup,
                             r.success)
                         EXCEPT !.source = BackupParent(b)]
    /\ UNCHANGED <<orchVars, auxVars, clock>>

Do_run_pylint ==
    /\ \E p \in PathInputs, io \in {"s80", "missing"} :
         LET r == Tools_run_pylint_file(Disk, p, io)
         IN op' = Called("run_pylint", p, Absent, FALSE, NoBackup, NoBackup, r.success)
    /\ UNCHANGED <<orchVars, auxVars, fs, backups, clock>>

Do_run_pytest ==
    /\ \E p \in PathInputs, ro \in {"passed", "timeout"} :
         LET r == Tools_run_pytest_target(Disk, p, ro)
         IN op' = Called("run_pytest", p, Absent, FALSE, NoBackup, NoBackup, r.success)
    /\ UNCHANGED <<orchVars, auxVars, fs, backups, clock>>

Do_validate_target_dir ==
    /\ \E p \in DirInputs :
         LET r == validate_target_dir(p)
         IN op' = [name |-> "validate_target_dir", path |-> p, content |-> Absent,
                   source |-> <<>>, create_backup |-> FALSE, before |-> Absent, backup |-> NoBackup, backup2 |-> NoBackup,
                   success |-> r.valid]
    /\ UNCHANGED <<orchVars, auxVars, fs, backups, clock>>

\* one call of FixerAgent.fix_file; the Patch Generator may take the clock to
\* the next second, and the copies of its backups succeed.  A path that
\* validate_path refuses ends the call before the Patch Generator is asked,
\* and a Patch Generator that raises gives no answer: one answer stands for
\* all then
Do_fix_file ==
    /\ \E p \in PathInputs, llm_ok \in BOOLEAN, response \in Responses,
          later \in {clock, clock + 1} \cap (0..MaxTick) :
         LET r == fix_file(Disk, p, llm_ok, response, clock, later, TRUE)
             fixed_code == _clean_generated_code(response)
             first == [fence |-> "none", code |-> "c1"]
         IN /\ validate_path(p).raised => (llm_ok /\ response = first /\ later = clock)
            /\ ~llm_ok => response = first
            /\ fs' = r.d.fs
            /\ backups' = r.d.backups
            /\ clock' = later
            /\ op' = Called("fix_file", p, IF llm_ok THEN fixed_code ELSE Absent,
                            FALSE,
                            IF Len(r.backups) >= 1 THEN r.backups[1] ELSE NoBackup,
                            IF Len(r.backups) >= 2 THEN r.backups[2] ELSE NoBackup,
                            ~r.raised)
    /\ UNCHANGED <<orchVars, auxVars>>

\* a second passes
Tick ==
    /\ clock < MaxTick
    /\ clock' = clock + 1
    /\ UNCHANGED <<orchVars, auxVars, fs, backups, op>>

StoreNext ==
    \/ Do_read_file
    \/ Do_write_file
    \/ Do_create_backup
    \/ Do_restore_backup
    \/ Do_run_pylint
    \/ Do_run_pytest
    \/ Do_validate_target_dir
    \/ Do_fix_file
    \/ Tick

StoreSpec == StoreInit /\ [][StoreNext]_vars

----------------------------------------------------------------------------
(* Properties *)

RECURSIVE Count(_, _)
Count(seq, x) ==
    IF seq = <<>> THEN 0
    ELSE (IF Head(seq) = x THEN 1 ELSE 0) + Count(Tail(seq), x)

NumFix == Count(stages, "fixer")
NumValidate == Count(stages, "judge")

LastStage == IF stages = <<>> THEN "none" ELSE stages[Len(stages)]

\* run() returned the record it builds after the graph completed
Completed == pc = "returned" /\ target_exists /\ ~raised.is

Exhausted ==
    /\ Completed
    /\ result.success = FALSE
    /\ "reason" \in DOMAIN result
    /\ result.reason = "Max iterations reached"

Succeeded == Completed /\ result.success = TRUE

\* C1: for max_iterations = N >= 1 a run performs at most N Fix stages; a run
\* that completes without any Validate succeeding ends in the exhausted
\* outcome (success = false, reason 'Max iterations reached'); once a Validate
\* succeeds, at iteration k <= N, the run ends right after that Validate with
\* success and no further Fix.
C1_LoopBoundedness ==
    max_iterations >= 1 =>
        /\ NumFix <= max_iterations
        /\ (Completed /\ ~state.tests_passed) => Exhausted
        /\ state.tests_passed =>
              /\ pc \in {"decide", "END", "returned"}
              /\ LastStage = "judge"
              /\ state.current_iteration <= max_iterations
              /\ state.current_iteration = NumFix + 1
              /\ (pc = "returned" => Succeeded)

C1_Witness ==
    /\ Exhausted
    /\ max_iterations >= 2
    /\ NumValidate = max_iterations
    /\ ~state.tests_passed

\* C2: every run terminates: whatever the stage outcomes, run() eventually
\* returns (success, exhausted, or aborted on error).
C2_Termination == <>(pc = "returned")

C2_Witness == pc = "returned" /\ NumFix >= 2

\* C3: in a run where every Validate fails, the number of Fix stages executed
\* before the exhausted terminal state equals max_iterations.
C3_ExactlyMaxFixes == Exhausted => NumFix = max_iterations

\* C4: in every run that ends in the success or exhausted terminal state, the
\* number of Validate stages is exactly one more than the number of Fix stages.
C4_ValidateOneMoreThanFix == Completed => NumValidate = NumFix + 1

C4_Witness == Succeeded /\ NumFix >= 1 /\ NumValidate = NumFix + 1

\* C5: success is checked before the iteration ceiling: a Validate that reports
\* success while current_iteration >= max_iterations ends the run with
\* success = true, never as exhausted.
C5_SuccessBeforeCeiling ==
    (state.tests_passed /\ state.current_iteration >= state.max_iterations) =>
        /\ pc \in {"decide", "END", "returned"}
        /\ (pc = "returned" => Succeeded /\ ~Exhausted /\ "reason" \notin DOMAIN result)

C5_Witness ==
    /\ Succeeded
    /\ max_iterations >= 2
    /\ state.current_iteration = max_iterations
    /\ NumFix = max_iterations - 1

C7_ErrorAborts ==
    /\ [](raised.is =>
            /\ pc \in {"except", "returned"}
            /\ pc = "returned" =>
                  /\ result = [success |-> FALSE, error |-> raised.msg]
                  /\ "reason" \notin DOMAIN result
                  /\ "last_test_result" \notin DOMAIN result)
    /\ [][raised.is => stages' = stages]_vars

C7_Witness == pc = "returned" /\ raised.is /\ LastStage = "fixer"

RunnerUnavailable == last_run.runner \in {"timeout", "missing"}

\* C8: when the Test Runner cannot run (timeout or binary missing), the run
\* aborts with an infrastructure failure: that Validate yields no 'failure'
\* verdict treated as broken code, no increment of the counter and no Fix.
C8_RunnerFailureAborts ==
    RunnerUnavailable =>
        /\ raised.is
        /\ pc \in {"except", "returned"}
        /\ state.test_results.status # "failure"

InspectorUnavailable ==
    /\ last_run.runner = "passed"
    /\ \E f \in DOMAIN last_run.inspector :
          last_run.inspector[f] \in {"timeout", "missing"}

\* C9: when the Code Inspector cannot run in a Validate, the run ends with an
\* infrastructure failure; such a Validate never produces a success verdict.
C9_InspectorFailureAborts ==
    InspectorUnavailable =>
        /\ raised.is
        /\ state.test_results.status # "success"

\* C10: a verdict with status 'success' implies that every source file under
\* the target root was inspected and scored at least 8.0.
C10_QualityGate ==
    (pc = "decide" /\ state.test_results.status = "success") =>
        \A f \in fs_files :
            /\ f \in DOMAIN state.test_results.pylint_results
            /\ state.test_results.pylint_results[f].score.has
            /\ state.test_results.pylint_results[f].score.value >= QualityThreshold

----------------------------------------------------------------------------
(* The Validator's verdict and the feedback built from it *)

\* a Validate has just returned its verdict to the engine
Validated == pc = "decide"

Verdict == state.test_results

\* the quality flag of the last Validate: no inspected file got a score under
\* the threshold
QualityPassed ==
    \A f \in inspected :
        LET r == run_pylint(last_run.inspector[f])
        IN r.raised \/ ~r.result.score.has
           \/ r.result.score.value >= QualityThreshold

RawFailedLines(ro) ==
    {i \in 1..Len(RunnerText(ro)) : HasToken(RunnerText(ro)[i], "FAILED")}

\* C12: when the tests of a Validate fail, no file is inspected during that
\* Validate, the verdict carries no inspection result and no "Quality Gate"
\* entry, and every entry of failing_tests is a FAILED line of the runner's
\* output or the placeholder for an output without such a line
C12_QualitySkipped ==
    (Validated /\ last_run.runner # "passed") =>
        /\ inspected = {}
        /\ DOMAIN Verdict.pylint_results = {}
        /\ \A i \in 1..Len(Verdict.failing_tests) :
               LET e == Verdict.failing_tests[i]
               IN /\ e.file # <<"Quality", "Gate">>
                  /\ \/ e = UnknownFailure /\ RawFailedLines(last_run.runner) = {}
                     \/ \E k \in RawFailedLines(last_run.runner) :
                            e.error = <<RunnerText(last_run.runner)[k]>>

C12_Witness ==
    /\ Validated
    /\ last_run.runner = "failed_marked"
    /\ fs_files # {}
    /\ Len(Verdict.failing_tests) = 1
    /\ inspected = {}

\* C13: after a Validate that reported failure, failing_tests, error_feedback
\* and the plan's errors are all non-empty
C13_FeedbackNonEmpty ==
    (Validated /\ Verdict.status = "failure") =>
        /\ Verdict.failing_tests # <<>>
        /\ ~state.error_feedback.none
        /\ state.error_feedback.lines # <<>>
        /\ state.refactoring_plan.has_errors
        /\ state.refactoring_plan.errors # <<>>

QualityGateEntries ==
    {i \in 1..Len(Verdict.failing_tests) :
        Verdict.failing_tests[i].file = <<"Quality", "Gate">>}

\* the tests passed and the quality flag is not set, and a verdict came back
QualityGateFailed ==
    Validated /\ last_run.runner = "passed" /\ Verdict.status = "failure"

NonEmptyLines(text) == Cardinality({i \in 1..Len(text) : text[i] # <<>>})

FilesUnderThreshold ==
    {f \in DOMAIN Verdict.pylint_results :
        /\ Verdict.pylint_results[f].score.has
        /\ Verdict.pylint_results[f].score.value < QualityThreshold}

\* C14, as stated: when the tests pass and the quality gate fails, the verdict
\* holds exactly one "Quality Gate" entry and the text of that entry has at
\* most 20 lines
C14_QualityGateEntry ==
    QualityGateFailed =>
        /\ Cardinality(QualityGateEntries) = 1
        /\ \A i \in QualityGateEntries :
               Len(Verdict.failing_tests[i].error) <= FeedbackLineCap

\* C14, amended: exactly one "Quality Gate" entry, however many files are under
\* the threshold; its text is the first 20 items of the lint list, so it has at
\* most 20 non-empty lines, and one empty line more for each file heading
C14_QualityGateEntryCapped ==
    QualityGateFailed =>
        /\ Cardinality(QualityGateEntries) = 1
        /\ \A i \in QualityGateEntries :
               LET text == Verdict.failing_tests[i].error
               IN /\ NonEmptyLines(text) <= FeedbackLineCap
                  /\ Len(text) <= FeedbackLineCap + Cardinality(FilesUnderThreshold)

C14_Witness ==
    /\ QualityGateFailed
    /\ Cardinality(FilesUnderThreshold) >= 2
    /\ \E i \in QualityGateEntries :
           /\ NonEmptyLines(Verdict.failing_tests[i].error) = FeedbackLineCap
           /\ Len(Verdict.failing_tests[i].error) > FeedbackLineCap

\* a Validate of this run has failed: the last verdict is a failure, or a Fix
\* stage, which only a failed Validate leads to, has been entered
SomeValidateFailed == Verdict.status = "failure" \/ NumFix >= 1

\* C15, as stated: once a Validate has returned, the plan carries the errors
\* field exactly when the most recent Validate failed
C15_ErrorsIffLastFailed ==
    (NumValidate >= 1 /\ ~raised.is) =>
        (state.refactoring_plan.has_errors <=> Verdict.status = "failure")

\* C15, amended: once a Validate has returned, the plan carries the errors
\* field exactly when some Validate of the run has failed; a failed Validate
\* sets it to its own feedback and a later success leaves it in place
C15_ErrorsIffSomeFailed ==
    /\ (NumValidate >= 1 /\ ~raised.is) =>
           (state.refactoring_plan.has_errors <=> SomeValidateFailed)
    /\ (Validated /\ Verdict.status = "failure") =>
           /\ state.refactoring_plan.errors = FeedbackText(Verdict.failing_tests)
           /\ state.refactoring_plan.errors = state.error_feedback.lines

C15_Witness ==
    /\ Validated
    /\ Verdict.status = "success"
    /\ NumFix >= 1
    /\ state.refactoring_plan.has_errors
    /\ state.refactoring_plan.errors # <<>>

----------------------------------------------------------------------------
(* The iteration counter *)

\* C16: in every state of a run (max_iterations >= 0), current_iteration is at
\* least 1 and at most max_iterations + 1
C16_IterationRange ==
    /\ state.current_iteration >= 1
    /\ state.current_iteration <= state.max_iterations + 1
    /\ state.current_iteration <= max_iterations + 1

C16_Witness ==
    /\ pc = "END"
    /\ ~state.tests_passed
    /\ state.max_iterations >= 2
    /\ state.current_iteration = state.max_iterations

\* the Fix stages entered so far: those that ran, and the one the edge has
\* just routed to
FixEntered == NumFix + (IF pc = "fixer" THEN 1 ELSE 0)

\* C17: current_iteration is 1 + the number of Fix stages entered so far, and
\* the only step that changes it is the edge's decision to retry after a
\* failed Validate, which adds exactly 1
C17_IterationCountsFixes ==
    /\ [](state.current_iteration = 1 + FixEntered)
    /\ [][state'.current_iteration # state.current_iteration =>
             /\ pc = "decide" /\ pc' = "fixer"
             /\ ~state.tests_passed
             /\ LastStage = "judge"
             /\ state'.current_iteration = state.current_iteration + 1]_vars

C17_Witness ==
    /\ pc = "decide"
    /\ NumFix = 2
    /\ NumValidate = 3
    /\ state.current_iteration = 3

----------------------------------------------------------------------------
(* Test generation and the result record *)

GenerationsLogged == Count(log, "TestGenerator_Agent")

\* C18: tests_generated never goes back to false and changes only when the
\* GenerateTests stage returns; it is true in every later stage of the run,
\* and the generation step is executed at most once in a run
C18_TestsGeneratedOnce ==
    /\ [][state.tests_generated => state'.tests_generated]_vars
    /\ [][state'.tests_generated # state.tests_generated =>
             pc = "test_generator" /\ pc' = "judge"]_vars
    /\ [](pc \in {"judge", "decide", "fixer", "END"} => state.tests_generated)
    /\ [](GenerationsLogged <= 1 /\ Count(stages, "test_generator") <= 1)

C18_Witness ==
    /\ pc = "END"
    /\ NumFix >= 1
    /\ state.tests_generated
    /\ GenerationsLogged = 1

\* C19: once the GenerateTests stage has been entered, a Validate stage
\* eventually executes
C19_ValidateFollowsGenerate ==
    (Count(stages, "test_generator") >= 1) ~> (NumValidate >= 1)

\* C20: the result record is set once in a run, by run() when it returns:
\* after the graph reached END, after an error ended the run, or for a missing
\* target directory; no stage and no decision of the loop sets or changes it
C20_ResultSetOnce ==
    /\ [](pc # "returned" <=> result = NoResult)
    /\ [][result' # result =>
             /\ result = NoResult
             /\ pc \in {"start", "END", "except"}
             /\ pc' = "returned"]_vars

C20_Witness ==
    /\ Succeeded
    /\ NumFix >= 1
    /\ result.iterations_needed = state.current_iteration

----------------------------------------------------------------------------
(* The record returned by run() and the plan used by the stages *)

\* C21: a successful run reports as its iteration count the number of
\* Fix -> Validate cycles it performed (1 when the second Validate succeeds)
C21_IterationsAreCycles ==
    Succeeded => result.iterations_needed = NumFix

\* C22: a run on an existing target directory without Python files returns a
\* failure record with the reason "no files found", and no Validate and no Fix
\* stage is executed in it
C22_NoFilesShortCircuit ==
    (target_exists /\ state.python_files = {} /\ pc # "start") =>
        /\ NumValidate = 0
        /\ NumFix = 0
        /\ pc = "returned" =>
               /\ result.success = FALSE
               /\ "reason" \in DOMAIN result
               /\ result.reason = "no files found"

\* the verdict of the Validate that ran last, from what the test runner and
\* the code inspector did in it
LastValidateOutput == run_tests(last_run.runner, fs_files, last_run.inspector).result

\* C23: an exhausted run returns success = false with the exhaustion reason,
\* max_iterations as its iteration count, and the verdict of the last Validate
\* that was executed
C23_ExhaustedRecord ==
    Exhausted =>
        /\ result.success = FALSE
        /\ result.reason = "Max iterations reached"
        /\ result.iterations_needed = max_iterations
        /\ NumValidate >= 1
        /\ result.last_test_result = LastValidateOutput
        /\ result.last_test_result.status = "failure"

C23_Witness ==
    /\ Exhausted
    /\ max_iterations = 2
    /\ NumValidate = 2
    /\ result.iterations_needed = 2
    /\ last_run.runner = "failed_marked"
    /\ Len(result.last_test_result.failing_tests) = 1

\* C26: a plan that is not of the shape {issues: [...]} (JSON of another
\* shape) is never used by a Validate or a Fix stage: the run is aborted in
\* Audit
C26_MalformedPlanAborts ==
    (state.refactoring_plan.kind \in {"dict_other", "list"}) =>
        /\ NumValidate = 0
        /\ NumFix = 0
        /\ pc \in {"except", "returned"}
        /\ raised.is

\* the error feedback a Fix stage has at hand: the plan's "errors"
CurrentFeedback ==
    IF state.refactoring_plan.has_errors
    THEN [lines |-> state.refactoring_plan.errors, none |-> FALSE]
    ELSE [lines |-> <<>>, none |-> TRUE]

\* C25: when a Fix stage has returned, the Patch Generator has been invoked
\* once for every issue of the plan's "issues" list, in the order of the list,
\* each time with the current error feedback
C25_PatchPerIssue ==
    (LastStage = "fixer" /\ pc = "judge") =>
        LET issues == state.refactoring_plan.issues
            results == state.fix_results.results
        IN /\ Len(results) = Len(issues)
           /\ \A i \in 1..Len(issues) :
                  i <= Len(results) =>
                      /\ results[i].file = issues[i]
                      /\ results[i].error_feedback = CurrentFeedback

----------------------------------------------------------------------------
(* What run() hands back to its caller *)

\* the positions run() goes through; none of them is an exception leaving run()
Positions ==
    {"start", "auditor", "test_generator", "judge", "decide", "fixer", "END",
     "except", "returned"}

\* C35: run() hands back a record with a boolean "success" whatever the stages
\* did, an exception of a stage ends in the except clause and never leaves
\* run(), and the record returned after a stage raised carries the message of
\* that exception
C35_WellFormedResult ==
    /\ pc \in Positions
    /\ raised.is => pc \in {"except", "returned"}
    /\ pc = "returned" =>
           /\ "success" \in DOMAIN result
           /\ result.success \in BOOLEAN
           /\ raised.is => (result.success = FALSE /\ result.error = raised.msg)

\* C35 witness: run() returned after the Fix stage raised, with its message
C35_Witness ==
    /\ pc = "returned"
    /\ raised.is
    /\ LastStage = "fixer"
    /\ result = [success |-> FALSE, error |-> "fix failed"]

\* C36: when the target directory does not exist, run() returns a failure
\* record with an error message, no stage has run and nothing was written to
\* the telemetry log
C36_MissingTargetNoStage ==
    (~target_exists /\ pc # "start") =>
        /\ pc = "returned"
        /\ result.success = FALSE
        /\ "error" \in DOMAIN result
        /\ result.error # ""
        /\ stages = <<>>
        /\ log = <<>>
        /\ ~raised.is

\* C36 witness: run() has returned for a missing target directory
C36_Witness ==
    /\ ~target_exists
    /\ pc = "returned"
    /\ result = [success |-> FALSE, error |-> "The directory does not exist!"]

----------------------------------------------------------------------------
(* Verdicts, feedback and the terminal result *)

\* the entry e is one of the failing tests of the verdict
InVerdict(e) ==
    \E i \in 1..Len(Verdict.failing_tests) : Verdict.failing_tests[i] = e

\* C38: the verdict of a Validate holds the placeholder "Unable to clearly
\* identify failing test." only when the test run failed without a FAILED
\* marker, and the verdict of a Validate whose tests passed holds no entry
\* other than the one of the quality gate
C38_PlaceholderOnlyForFailedRun ==
    Validated =>
        LET pytest_result == run_pytest(last_run.runner)
        IN /\ InVerdict(UnknownFailure) =>
                  (~pytest_result.success /\ MarkedFailures(pytest_result.output) = <<>>)
           /\ pytest_result.success =>
                  \A i \in 1..Len(Verdict.failing_tests) :
                      Verdict.failing_tests[i].file = <<"Quality", "Gate">>

\* the feedback text built from the verdict of the last Validate
LastFeedback == FeedbackText(LastValidateOutput.failing_tests)

\* C37: a Fix stage runs with the feedback of the Validate just before it: when
\* Fix is entered, error_feedback and the plan's "errors" are the text built
\* from the failing tests of that Validate, and what a returned Fix handed to
\* the Patch Generator is that text (None when the text is empty)
C37_FeedbackOfLastValidate ==
    /\ pc = "fixer" =>
           /\ LastValidateOutput.status = "failure"
           /\ ~state.error_feedback.none
           /\ state.error_feedback.lines = LastFeedback
           /\ state.refactoring_plan.has_errors
           /\ state.refactoring_plan.errors = LastFeedback
    /\ (LastStage = "fixer" /\ pc = "judge") =>
           \A i \in 1..Len(state.fix_results.results) :
               state.fix_results.results[i].error_feedback =
                   IF LastFeedback = <<>> THEN NoFeedback
                   ELSE [none |-> FALSE, lines |-> LastFeedback]

\* C37 witness: the second Fix of a run has handed the Patch Generator the
\* feedback of the second Validate, the marked failure of its test run
C37_Witness ==
    /\ LastStage = "fixer"
    /\ pc = "judge"
    /\ NumFix = 2
    /\ last_run.runner = "failed_marked"
    /\ Len(state.fix_results.results) >= 1
    /\ state.fix_results.results[1].error_feedback.lines = LastFeedback
    /\ Len(LastFeedback) = 2

\* C39: when the workflow completes without a stage raising, run() returns
\* success exactly when the verdict of the last Validate is a success, and it
\* returns the "Max iterations reached" record only when the last Validate
\* failed with current_iteration >= max_iterations
C39_ResultMatchesVerdict ==
    Completed =>
        /\ NumValidate >= 1
        /\ result.success = TRUE <=> LastValidateOutput.status = "success"
        /\ ("reason" \in DOMAIN result /\ result.reason = "Max iterations reached") =>
               /\ LastValidateOutput.status = "failure"
               /\ state.current_iteration >= max_iterations

\* C39 witness: a run that succeeded in its last allowed iteration, after two
\* Fix stages
C39_Witness ==
    /\ Completed
    /\ result.success = TRUE
    /\ LastValidateOutput.status = "success"
    /\ NumFix = 2
    /\ state.current_iteration = max_iterations

\* C34: a call of log_experiment that raises neither aborts the run nor
\* changes what it returns: no run ends on the exception of the sink, and a run
\* whose last Validate passed returns the success record with its verdict
C34_SinkFailureHarmless ==
    /\ raised.is => raised.msg # SinkError
    /\ (pc = "returned" /\ target_exists /\ state.tests_passed) =>
           /\ result.success = TRUE
           /\ result.test_result = state.test_results

\* C33: the command line ends with code 0 and the success banner when the run
\* returned success, and with another code and no success banner when the
\* target directory does not exist or a stage of the engine raised
C33_ExitCodes ==
    cli.exited =>
        /\ ("success" \in DOMAIN result /\ result.success = TRUE) =>
               (cli.code = 0 /\ cli.printed = "MISSION_COMPLETE")
        /\ (~target_exists \/ raised.is) =>
               (cli.code # 0 /\ cli.printed # "MISSION_COMPLETE")

----------------------------------------------------------------------------
(* Containment in the sandbox and the backups of the file store *)

\* the path given to a call resolves outside the sandbox root
OutsideSandbox(p) ==
    ~IsRelativeTo(Resolve(IF p.abs THEN p.parts ELSE SandboxPath \o p.parts),
                  SandboxPath)

TakesBackups(o) == o.name \in {"write_file", "create_backup", "fix_file"}

\* C29: when write_file with create_backup on an existing file reports success
\* and has changed the file, a backup holding the content the file had before
\* the write exists afterwards
C29_SnapshotBeforeOverwrite ==
    [][(/\ op'.name = "write_file"
        /\ op'.create_backup
        /\ op'.success
        /\ op'.before # Absent
        /\ fs' # fs) =>
           \/ \E b \in BackupNames : backups'[b] = op'.before
           \/ op' = op]_vars

\* C30: no backup operation produces the path of a backup that exists already:
\* the backup a call takes is a new file of .backups, also for the same file
\* within one second and for files of the same name in different directories,
\* and the two backups of one fix_file are different files
C30_BackupsCollisionFree ==
    [][(TakesBackups(op') /\ op' # op /\ op'.backup # NoBackup) =>
           /\ backups[op'.backup] = Absent
           /\ op'.backup2 # NoBackup =>
                  (op'.backup2 # op'.backup /\ backups[op'.backup2] = Absent)]_vars

\* C28: when the same content is written twice in a row to an existing file
\* with create_backup, the two writes have two different backups, and the
\* first of them still holds the content the file had before the first write
C28_BackupIdempotence ==
    [][(/\ op.name = "write_file" /\ op.create_backup /\ op.success
        /\ op.backup # NoBackup
        /\ op'.name = "write_file" /\ op'.create_backup /\ op'.success
        /\ op'.backup # NoBackup
        /\ op' # op
        /\ op'.path = op.path
        /\ op'.content = op.content) =>
           /\ op'.backup # op.backup
           /\ backups'[op.backup] = op.before
           /\ Tools_restore_backup([fs |-> fs', backups |-> backups'],
                                   [abs |-> TRUE, parts |-> BackupDir,
                                    name |-> op.backup],
                                   op.path).d.fs
                  [Resolve(SandboxPath \o op.path.parts)] = op.before]_vars

\* C24: a fix_file whose Patch Generator answered the content the file already
\* had has taken no backup, neither before the call of the Patch Generator nor
\* in the write
C24_IdenticalPatchIsNoOp ==
    (op.name = "fix_file" /\ op.success /\ op.content = op.before) =>
        (op.backup = NoBackup /\ op.backup2 = NoBackup)

\* C31: no file of the backup directory is in the result of list_files, in the
\* source files the orchestrator discovers, or in the files the Validate sends
\* to the inspector, whatever writes and backups came before
C31_BackupsNotListed ==
    /\ Tools_list_files(Disk).backups = {}
    /\ discovered_python_files(Disk).backups = {}
    /\ judged_python_files(Disk).backups = {}

\* C32: restore_backup reports failure and changes no file when the backup
\* path given to it does not resolve inside the backup directory, and when its
\* target resolves outside the sandbox root
C32_RestoreGuards ==
    [][(/\ op'.name = "restore_backup"
        /\ \/ ~IsRelativeTo(op'.source, BackupDir)
           \/ OutsideSandbox(op'.path)) =>
           /\ op'.success = FALSE
           /\ fs' = fs
           /\ backups' = backups]_vars

\* C32 witness: a backup exists, and a restore from a file of the sandbox
\* written as a path through .backups/.. was refused, the target keeping its
\* content
C32_Witness ==
    /\ op.name = "restore_backup"
    /\ op.source = SandboxPath
    /\ ~OutsideSandbox(op.path)
    /\ ~op.success
    /\ fs[SandboxPath \o <<"a.py">>] = "c2"
    /\ op.before = fs[Resolve(SandboxPath \o op.path.parts)]
    /\ \E b \in BackupNames : backups[b] # Absent

\* C40: every stage resolves its files against the target directory of the
\* run: the directory Audit lists and the one Validate tests are that
\* directory, and the file run() discovers, Audit reads, Fix validates and
\* writes, and Validate inspects is the file of that name in it
C40_OneRoot ==
    LET root == ToolsRoot(roots.target_dir)
        file == root \o <<roots.file>>
    IN roots.target_dir # NoPath =>
           /\ roots.discovers \in {<<>>, file}
           /\ roots.audit_lists \in {<<>>, root}
           /\ roots.audit_reads \in {<<>>, file}
           /\ roots.fix_validates \in {<<>>, file}
           /\ roots.fix_writes \in {<<>>, file}
           /\ roots.validate_tests \in {<<>>, root}
           /\ roots.validate_inspects \in {<<>>, file}

====
